---- MODULE Spec2Model ----
(***************************************************************************)
(* Model of the asc-item-manager inventory engine                          *)
(* (src/server/itemArrayManager.ts) together with the item catalog cache   *)
(* it reads (src/server/itemManager.ts).                                   *)
(*                                                                         *)
(* An optional field of the TypeScript types (decay, data, the members of  *)
(* AddOptions, the members of an update patch) is a sequence: << >> when   *)
(* the field is undefined, <<v>> when it holds v.                          *)
(*                                                                         *)
(* The fields name, desc, icon, rotation, position, durability,            *)
(* useEventName and rules of an item are carried along by the engine and   *)
(* never read by it; they are left out of the records.                     *)
(***************************************************************************)
EXTENDS Integers, Sequences, FiniteSets, TLC

\* ---------------------------------------------------------------- bounds
\* longest collection the model lets an operation return
MaxItems == 3
\* number of engine calls the model follows from the empty collection
MaxCalls == 3

\* ------------------------------------------------------------ identifiers
Water == "water"
Knife == "knife"
Ghost == "ghost"
TypeIds == {Water, Knife}

\* Utility.uid.generate(): the n-th identifier handed out; never repeats
UidOf(n) == "u" \o ToString(n)

Min(a, b) == IF a < b THEN a ELSE b

\* ------------------------------------------------------------- catalog
\* getBaseItem: the cached definition of id, or << >> when it is not cached
getBaseItem(db, id) == IF id \in DOMAIN db THEN <<db[id]>> ELSE << >>

\* the catalog cache after init() loaded the stored definitions
InitialCatalog ==
    [t \in TypeIds |->
        IF t = Water
        THEN [id |-> Water, maxStack |-> 5, weight |-> 1, width |-> 1, height |-> 1,
              decay |-> << >>]
        ELSE [id |-> Knife, maxStack |-> 1, weight |-> 2, width |-> 2, height |-> 1,
              decay |-> <<2>>]]

\* ------------------------------------------------------- policy check
RECURSIVE SumWeight(_)
SumWeight(items) ==
    IF items = << >> THEN 0
    ELSE Head(items).quantity * Head(items).weight + SumWeight(Tail(items))

RECURSIVE SumCells(_)
SumCells(items) ==
    IF items = << >> THEN 0
    ELSE Head(items).width * Head(items).height + SumCells(Tail(items))

isWeightExceeded(items, maxWeight) == SumWeight(items) > maxWeight

\* options.maxCells || ItemManagerConfig.slots.maxCells  (an object is truthy)
EffMaxCells(cfg, options) ==
    IF options.maxCells # << >> THEN options.maxCells[1] ELSE cfg.slots.maxCells

\* options.maxWeight || ItemManagerConfig.weight.maxWeight  (0 is falsy)
EffMaxWeight(cfg, options) ==
    IF options.maxWeight # << >> /\ options.maxWeight[1] # 0
    THEN options.maxWeight[1] ELSE cfg.weight.maxWeight

verifyStackAndWeight(cfg, items, options) ==
    LET maxCells == EffMaxCells(cfg, options)
        maxWeight == EffMaxWeight(cfg, options)
        totalCellsOccupied == SumCells(items)
        totalAvailableCells == maxCells.width * maxCells.height
    IN  IF (cfg.slots.enabled /\ totalCellsOccupied > totalAvailableCells)
           \/ totalAvailableCells <= 0
        THEN FALSE
        ELSE IF cfg.weight.enabled /\ isWeightExceeded(items, maxWeight)
        THEN FALSE
        ELSE TRUE

\* ------------------------------------------------------------ arrays
\* items.findIndex(x => x.uid === uid): first index (1-based), 0 for -1
RECURSIVE FindFrom(_, _, _)
FindFrom(items, uid, i) ==
    IF i > Len(items) THEN 0
    ELSE IF items[i].uid = uid THEN i
    ELSE FindFrom(items, uid, i + 1)

findIndex(items, uid) == FindFrom(items, uid, 1)

\* items.splice(i, 1)
Splice(items, i) == SubSeq(items, 1, i - 1) \o SubSeq(items, i + 1, Len(items))

\* cloneItems: a new array with new element objects carrying the same
\* JSON values; `alias` tells whether the returned reference is the
\* argument's own array (never, for the clone)
cloneItemsShared(items) == [arr |-> items, alias |-> TRUE]

cloneItems(items) == [arr |-> items, alias |-> FALSE]

\* what the caller's array holds once the call is over: the working array's
\* final contents when the working reference aliases it
InputAfter(items, ref, work) == IF ref.alias THEN work ELSE items

\* result of an engine call
\*   ok      a collection was returned (FALSE: undefined)
\*   items   the collection returned
\*   work    the working array when the call returned
\*   input   the caller's array when the call returned
\*   err     errorMessage when the call returned
\*   used    identifiers taken from the generator
\*   removed removeAt's second result
Res(ok, work, input, err, used) ==
    [ok |-> ok, items |-> IF ok THEN work ELSE << >>, work |-> work,
     input |-> input, err |-> err, used |-> used, removed |-> << >>]


\* ------------------------------------------------------------- add
\* { ...baseItem, quantity, uid } and the optional options.data
NewItem(baseItem, quantity, uid, options) ==
    [uid |-> uid, id |-> baseItem.id, quantity |-> quantity,
     maxStack |-> baseItem.maxStack, weight |-> baseItem.weight,
     width |-> baseItem.width, height |-> baseItem.height,
     decay |-> baseItem.decay,
     data |-> IF options.data # << >> THEN options.data ELSE << >>]

\* the while loop of addNewItemStacks; n is the number of identifiers
\* handed out so far.  The loop is followed for maxStack >= 1 only.
RECURSIVE NewStacksLoop(_, _, _, _, _)
NewStacksLoop(arr, baseItem, quantity, options, n) ==
    IF quantity > 0 /\ baseItem.maxStack >= 1
    THEN LET actualQuantity == Min(quantity, baseItem.maxStack)
             newItem == NewItem(baseItem, actualQuantity, UidOf(n + 1), options)
         IN  NewStacksLoop(Append(arr, newItem), baseItem,
                           quantity - actualQuantity, options, n + 1)
    ELSE [arr |-> arr, n |-> n]

addNewItemStacks(cfg, n, arr, baseItem, quantity, options) ==
    LET l == NewStacksLoop(arr, baseItem, quantity, options, n)
    IN  [ok |-> verifyStackAndWeight(cfg, l.arr, options), arr |-> l.arr,
         used |-> l.n - n]

\* the for loop of handleItemStacking from index i on
RECURSIVE StackLoop(_, _, _, _)
StackLoop(arr, baseItem, quantity, i) ==
    IF i > Len(arr) THEN [arr |-> arr, quantity |-> quantity]
    ELSE IF arr[i].id # baseItem.id \/ arr[i].quantity = baseItem.maxStack
    THEN StackLoop(arr, baseItem, quantity, i + 1)
    ELSE IF quantity <= 0
    THEN [arr |-> arr, quantity |-> quantity]
    ELSE LET availableSpace == baseItem.maxStack - arr[i].quantity
             quantityToAdd == Min(availableSpace, quantity)
         IN  StackLoop([arr EXCEPT ![i].quantity = @ + quantityToAdd], baseItem,
                       quantity - quantityToAdd, i + 1)

\* the branch that absorbed the whole quantity returns the array as it is
handleItemStacking(cfg, n, arr, baseItem, quantity, options) ==
    IF baseItem.maxStack <= 1
    THEN addNewItemStacks(cfg, n, arr, baseItem, quantity, options)
    ELSE LET l == StackLoop(arr, baseItem, quantity, 1)
         IN  IF l.quantity > 0
             THEN addNewItemStacks(cfg, n, l.arr, baseItem, l.quantity, options)
             ELSE [ok |-> TRUE, arr |-> l.arr, used |-> 0]

add(cfg, db, n, id, quantity, items, options) ==
    LET base == getBaseItem(db, id)
    IN  IF base = << >>
        THEN Res(FALSE, items, items, "Base item does not exist", 0)
        ELSE LET ref == cloneItems(items)
                 r == IF base[1].maxStack <= 1
                      THEN addNewItemStacks(cfg, n, ref.arr, base[1], quantity, options)
                      ELSE handleItemStacking(cfg, n, ref.arr, base[1], quantity, options)
             IN  Res(r.ok, r.arr, InputAfter(items, ref, r.arr), "", r.used)

addSpecificItem(cfg, item, items, options) ==
    LET ref == cloneItems(items)
        work == Append(ref.arr, item)
    IN  Res(verifyStackAndWeight(cfg, work, options), work,
            InputAfter(items, ref, work), "", 0)

\* ------------------------------------------------------------ remove
\* remove without the comparison of the stack's quantity with the request
removeUnchecked(uid, quantity, items) ==
    LET itemIndex == findIndex(items, uid)
    IN  IF itemIndex = 0
        THEN Res(FALSE, items, items, "", 0)
        ELSE LET ref == cloneItems(items)
                 work == IF quantity >= ref.arr[itemIndex].quantity
                         THEN Splice(ref.arr, itemIndex)
                         ELSE [ref.arr EXCEPT ![itemIndex].quantity = @ - quantity]
             IN  Res(TRUE, work, InputAfter(items, ref, work), "", 0)

remove(uid, quantity, items) ==
    LET itemIndex == findIndex(items, uid)
    IN  IF itemIndex = 0 \/ items[itemIndex].quantity < quantity
        THEN Res(FALSE, items, items, "", 0)
        ELSE LET ref == cloneItems(items)
                 work == IF quantity >= ref.arr[itemIndex].quantity
                         THEN Splice(ref.arr, itemIndex)
                         ELSE [ref.arr EXCEPT ![itemIndex].quantity = @ - quantity]
             IN  Res(TRUE, work, InputAfter(items, ref, work), "", 0)

\* removeAt that reads the removed stack at the index after the splice
removeAtReadsAfter(uid, items) ==
    LET ref == cloneItems(items)
        index == findIndex(ref.arr, uid)
    IN  IF index = 0
        THEN Res(FALSE, ref.arr, items, "Could not find item to remove", 0)
        ELSE LET work == Splice(ref.arr, index)
             IN  [Res(TRUE, work, InputAfter(items, ref, work), "", 0)
                    EXCEPT !.removed = IF index <= Len(work)
                                       THEN <<work[index]>> ELSE << >>]

removeAt(uid, items) ==
    LET ref == cloneItems(items)
        index == findIndex(ref.arr, uid)
    IN  IF index = 0
        THEN Res(FALSE, ref.arr, items, "Could not find item to remove", 0)
        ELSE LET work == Splice(ref.arr, index)
             IN  [Res(TRUE, work, InputAfter(items, ref, work), "", 0)
                    EXCEPT !.removed = <<ref.arr[index]>>]

\* removeQuantityFrom that leaves a stack it emptied in the collection
removeQuantityFromKeepsEmpty(uid, quantity, items) ==
    LET ref == cloneItems(items)
        index == findIndex(ref.arr, uid)
    IN  IF index = 0
        THEN Res(FALSE, ref.arr, items, "Could not find item to remove", 0)
        ELSE IF ref.arr[index].quantity < quantity
        THEN Res(FALSE, ref.arr, items,
                 "Quantity provided does not match available item quantity", 0)
        ELSE LET work == [ref.arr EXCEPT ![index].quantity = @ - quantity]
             IN  Res(TRUE, work, InputAfter(items, ref, work), "", 0)

removeQuantityFrom(uid, quantity, items) ==
    LET ref == cloneItems(items)
        index == findIndex(ref.arr, uid)
    IN  IF index = 0
        THEN Res(FALSE, ref.arr, items, "Could not find item to remove", 0)
        ELSE IF ref.arr[index].quantity < quantity
        THEN Res(FALSE, ref.arr, items,
                 "Quantity provided does not match available item quantity", 0)
        ELSE LET work == IF ref.arr[index].quantity = quantity
                         THEN Splice(ref.arr, index)
                         ELSE [ref.arr EXCEPT ![index].quantity = @ - quantity]
             IN  Res(TRUE, work, InputAfter(items, ref, work), "", 0)

\* ---------------------------------------------------------------- has
\* items.reduce of has: the quantities of the stacks of type id, added up
RECURSIVE totalQuantityFound(_, _)
totalQuantityFound(items, id) ==
    IF items = << >> THEN 0
    ELSE (IF Head(items).id = id THEN Head(items).quantity ELSE 0)
         + totalQuantityFound(Tail(items), id)

\* has that wants more than the quantity asked for
hasStrict(id, quantity, items) ==
    IF totalQuantityFound(items, id) > quantity
    THEN Res(TRUE, items, items, "", 0)
    ELSE Res(FALSE, items, items, "Not enough quantity of item", 0)

\* has reads the caller's array and returns a boolean (ok)
has(id, quantity, items) ==
    IF totalQuantityFound(items, id) >= quantity
    THEN Res(TRUE, items, items, "", 0)
    ELSE Res(FALSE, items, items, "Not enough quantity of item", 0)

\* ------------------------------------------------------- split, stack
split(cfg, db, n, uid, amountToSplit, items, options) ==
    LET ref == cloneItems(items)
        index == findIndex(ref.arr, uid)
    IN  IF index = 0
        THEN Res(FALSE, ref.arr, items,
                 "Could not find given item in inventory during split", 0)
        ELSE IF getBaseItem(db, ref.arr[index].id) = << >>
        THEN Res(FALSE, ref.arr, items, "Base item does not exist", 0)
        ELSE IF ref.arr[index].quantity < amountToSplit
                \/ ref.arr[index].quantity = amountToSplit
        THEN Res(FALSE, ref.arr, items, "Item cannot be split", 0)
        ELSE LET w1 == [ref.arr EXCEPT ![index].quantity = @ - amountToSplit]
                 clonedItem == w1[index]
                 newItem == [clonedItem EXCEPT !.quantity = amountToSplit,
                                               !.uid = UidOf(n + 1)]
                 work == Append(w1, newItem)
             IN  Res(verifyStackAndWeight(cfg, work, options), work,
                     InputAfter(items, ref, work), "", 1)

\* stack that lets a target with no free space through (diffToMax < 0)
stackFullTarget(db, uidToStackOn, uidToStack, items) ==
    LET ref == cloneItems(items)
        stackableIndex == findIndex(ref.arr, uidToStackOn)
        stackIndex == findIndex(ref.arr, uidToStack)
    IN  IF stackIndex = 0 \/ stackableIndex = 0
        THEN Res(FALSE, ref.arr, items, "Could not find both items in inventory", 0)
        ELSE IF ref.arr[stackableIndex].id # ref.arr[stackIndex].id
        THEN Res(FALSE, ref.arr, items,
                 "Both items were not the same, and cannot be stacked", 0)
        ELSE LET base == getBaseItem(db, ref.arr[stackIndex].id)
             IN  IF base = << >> \/ base[1].maxStack <= 1
                 THEN Res(FALSE, ref.arr, items, "Item cannot be stacked", 0)
                 ELSE LET diffToMax == ref.arr[stackableIndex].maxStack
                                         - ref.arr[stackableIndex].quantity
                      IN  IF diffToMax < 0
                          THEN Res(FALSE, ref.arr, items,
                                   "Item is already at max stack", 0)
                          ELSE LET w1 == [ref.arr EXCEPT
                                            ![stackableIndex].quantity = @ + diffToMax]
                                   work == IF w1[stackIndex].quantity > diffToMax
                                           THEN [w1 EXCEPT
                                                   ![stackIndex].quantity = @ - diffToMax]
                                           ELSE Splice(w1, stackIndex)
                               IN  Res(TRUE, work, InputAfter(items, ref, work), "", 0)

\* stack with the source's whole quantity put on the target
stackWhole(db, uidToStackOn, uidToStack, items) ==
    LET ref == cloneItems(items)
        stackableIndex == findIndex(ref.arr, uidToStackOn)
        stackIndex == findIndex(ref.arr, uidToStack)
    IN  IF stackIndex = 0 \/ stackableIndex = 0
        THEN Res(FALSE, ref.arr, items, "Could not find both items in inventory", 0)
        ELSE IF ref.arr[stackableIndex].id # ref.arr[stackIndex].id
        THEN Res(FALSE, ref.arr, items,
                 "Both items were not the same, and cannot be stacked", 0)
        ELSE LET base == getBaseItem(db, ref.arr[stackIndex].id)
             IN  IF base = << >> \/ base[1].maxStack <= 1
                 THEN Res(FALSE, ref.arr, items, "Item cannot be stacked", 0)
                 ELSE LET diffToMax == ref.arr[stackableIndex].maxStack
                                         - ref.arr[stackableIndex].quantity
                      IN  IF diffToMax <= 0
                          THEN Res(FALSE, ref.arr, items,
                                   "Item is already at max stack", 0)
                          ELSE LET work == Splice([ref.arr EXCEPT
                                             ![stackableIndex].quantity =
                                                 @ + ref.arr[stackIndex].quantity],
                                             stackIndex)
                               IN  Res(TRUE, work, InputAfter(items, ref, work), "", 0)

stack(db, uidToStackOn, uidToStack, items) ==
    LET ref == cloneItems(items)
        stackableIndex == findIndex(ref.arr, uidToStackOn)
        stackIndex == findIndex(ref.arr, uidToStack)
    IN  IF stackIndex = 0 \/ stackableIndex = 0
        THEN Res(FALSE, ref.arr, items, "Could not find both items in inventory", 0)
        ELSE IF ref.arr[stackableIndex].id # ref.arr[stackIndex].id
        THEN Res(FALSE, ref.arr, items,
                 "Both items were not the same, and cannot be stacked", 0)
        ELSE LET base == getBaseItem(db, ref.arr[stackIndex].id)
             IN  IF base = << >> \/ base[1].maxStack <= 1
                 THEN Res(FALSE, ref.arr, items, "Item cannot be stacked", 0)
                 ELSE LET diffToMax == ref.arr[stackableIndex].maxStack
                                         - ref.arr[stackableIndex].quantity
                      IN  IF diffToMax <= 0
                          THEN Res(FALSE, ref.arr, items,
                                   "Item is already at max stack", 0)
                          ELSE LET w1 == [ref.arr EXCEPT
                                            ![stackableIndex].quantity = @ + diffToMax]
                                   work == IF w1[stackIndex].quantity > diffToMax
                                           THEN [w1 EXCEPT
                                                   ![stackIndex].quantity = @ - diffToMax]
                                           ELSE Splice(w1, stackIndex)
                               IN  Res(TRUE, work, InputAfter(items, ref, work), "", 0)

\* ------------------------------------------------------ update, decay
\* Object.assign(item, data): every member the patch defines overwrites the
\* stack's; the patches followed here define uid, quantity or decay
ObjectAssign(item, data) ==
    [item EXCEPT
       !.uid = IF data.uid # << >> THEN data.uid[1] ELSE @,
       !.quantity = IF data.quantity # << >> THEN data.quantity[1] ELSE @,
       !.decay = IF data.decay # << >> THEN data.decay ELSE @]

\* update that deletes the stack for a decay below 0 only
updateKeepsZeroDecay(uid, data, items) ==
    LET ref == cloneItems(items)
        index == findIndex(ref.arr, uid)
    IN  IF index = 0
        THEN Res(FALSE, ref.arr, items,
                 "Unable to get item by uid, item does not exist", 0)
        ELSE IF data.decay # << >> /\ data.decay[1] < 0
        THEN LET work == Splice(ref.arr, index)
             IN  Res(TRUE, work, InputAfter(items, ref, work), "", 0)
        ELSE LET work == [ref.arr EXCEPT ![index] = ObjectAssign(@, data)]
             IN  Res(TRUE, work, InputAfter(items, ref, work), "", 0)

update(uid, data, items) ==
    LET ref == cloneItems(items)
        index == findIndex(ref.arr, uid)
    IN  IF index = 0
        THEN Res(FALSE, ref.arr, items,
                 "Unable to get item by uid, item does not exist", 0)
        ELSE IF data.decay # << >> /\ data.decay[1] <= 0
        THEN LET work == Splice(ref.arr, index)
             IN  Res(TRUE, work, InputAfter(items, ref, work), "", 0)
        ELSE LET work == [ref.arr EXCEPT ![index] = ObjectAssign(@, data)]
             IN  Res(TRUE, work, InputAfter(items, ref, work), "", 0)

\* the loop of invokeDecay deleting a stack only once its counter is below 0
RECURSIVE DecayLoopKeepsZero(_, _)
DecayLoopKeepsZero(arr, i) ==
    IF i < 1 THEN arr
    ELSE IF arr[i].decay = << >> THEN DecayLoopKeepsZero(arr, i - 1)
    ELSE LET d == arr[i].decay[1] - 1
         IN  IF d < 0
             THEN DecayLoopKeepsZero(Splice(arr, i), i - 1)
             ELSE DecayLoopKeepsZero([arr EXCEPT ![i].decay = <<d>>], i - 1)

\* the loop of invokeDecay, from index i down to 1
RECURSIVE DecayLoop(_, _)
DecayLoop(arr, i) ==
    IF i < 1 THEN arr
    ELSE IF arr[i].decay = << >> THEN DecayLoop(arr, i - 1)
    ELSE LET d == arr[i].decay[1] - 1
         IN  IF d <= 0
             THEN DecayLoop(Splice(arr, i), i - 1)
             ELSE DecayLoop([arr EXCEPT ![i].decay = <<d>>], i - 1)

\* invokeDecay leaves errorMessage as it was (err is the caller's)
invokeDecay(err, items) ==
    LET ref == cloneItems(items)
        work == DecayLoop(ref.arr, Len(ref.arr))
    IN  Res(TRUE, work, InputAfter(items, ref, work), err, 0)


\* ================================================================ state
VARIABLES
    config,         \* ItemManagerConfig: slots and weight policy defaults
    databaseItems,  \* the catalog cache of itemManager.ts
    items,          \* the collection the caller holds and passes to the engine
    uidCounter,     \* identifiers handed out by Utility.uid.generate()
    errorMessage,   \* the engine's errorMessage
    last,           \* the engine call made last, its arguments and its outcome
    prevAdd,        \* the add that succeeded right before the last call, if one did
    calls,          \* number of engine calls made
    adapter,        \* which adapter serves the owner: "storage" or "vehicle"
    record,         \* the owner's persisted record: items, whether it has items, noDecay
    procs,          \* the adapter operations under way, one per caller
    log,            \* persistence writes and notifications, in the order they happened
    loop,           \* the while loop of addNewItemStacks, followed step by step
    store           \* the item documents of the database and the catalog calls made

adapterVars == <<adapter, record, procs, log>>

vars == <<config, databaseItems, items, uidCounter, errorMessage, last, prevAdd, calls,
          adapter, record, procs, log, loop, store>>

\* ------------------------------------------------------ call arguments
NoOptions == [maxCells |-> << >>, maxWeight |-> << >>, data |-> << >>]

OptionArgs ==
    { NoOptions,
      [NoOptions EXCEPT !.maxWeight = <<3>>],
      [NoOptions EXCEPT !.maxCells = <<[width |-> 1, height |-> 2]>>],
      [NoOptions EXCEPT !.data = <<"serial">>] }

NoPatch == [uid |-> << >>, quantity |-> << >>, decay |-> << >>]

PatchArgs ==
    { [NoPatch EXCEPT !.decay = <<0>>],
      [NoPatch EXCEPT !.decay = <<2>>],
      [NoPatch EXCEPT !.quantity = <<0>>],
      [NoPatch EXCEPT !.uid = <<UidOf(1)>>] }

IdArgs == TypeIds \cup {Ghost}

QuantityArgs == {-1, 0, 1, 2, 12}

\* a stack handed over from another collection, with an identifier of its own
SpecificItems ==
    { [uid |-> "s1", id |-> Water, quantity |-> 2, maxStack |-> 5, weight |-> 1,
       width |-> 1, height |-> 1, decay |-> << >>, data |-> << >>] }

Uids(c) == {c[i].uid : i \in 1..Len(c)}

\* identifiers a caller passes: those of the collection, and an absent one
UidArgs == Uids(items) \cup {"none"}

NoArgs ==
    [id |-> "", uid |-> "", uid2 |-> "", quantity |-> 0, options |-> NoOptions,
     patch |-> NoPatch, item |-> << >>]

NoCall ==
    [op |-> "none", args |-> NoArgs, input |-> << >>, counter |-> 0,
     ok |-> FALSE, result |-> << >>, inputAfter |-> << >>, removed |-> << >>]

NoPrevAdd == [ok |-> FALSE, id |-> "", quantity |-> 0, input |-> << >>]

\* the callers of the adapter's operations
Procs == {"p1", "p2"}

\* an adapter operation: where it stands (pc), the stored collection when it
\* was called (before), the snapshot it read (cur),
\* what the engine answered (engine, out), what it handed to the persistence
\* write (toWrite), how the write ended (wrote) and what it returned (ret)
IdleProc ==
    [pc |-> "idle", op |-> "none", args |-> NoArgs, before |-> << >>, cur |-> << >>,
     engine |-> "notCalled", out |-> << >>, toWrite |-> << >>,
     wrote |-> "none", ret |-> "none"]

\* no adapter operation is called: the engine is used directly
AdapterIdle ==
    /\ adapter = "storage"
    /\ record = [items |-> << >>, hasItems |-> TRUE, noDecay |-> FALSE]
    /\ procs = [p \in Procs |-> IdleProc]
    /\ log = << >>

\* addNewItemStacks is not followed step by step
NoLoop ==
    [pc |-> "idle", id |-> "", asked |-> 0, maxStack |-> 0, quantity |-> 0,
     pushed |-> 0]

LoopIdle == loop = NoLoop

\* a call of the catalog's create or remove: where it stands (pc), the
\* definition or id it was given, the _id it hands to the database (target),
\* the _id clonedItem carries (stamped), whether a stored document was
\* deleted, and what it returned
IdleCatalogCall ==
    [pc |-> "idle", op |-> "none", id |-> "", item |-> << >>, target |-> << >>,
     stamped |-> << >>, deleted |-> FALSE, ret |-> "none"]

\* the catalog's create and remove are not called
NoStore ==
    [docs |-> { }, nextId |-> 0, calls |-> [p \in Procs |-> IdleCatalogCall],
     got |-> << >>]

StoreIdle == store = NoStore

\* the caller makes the call `op` with `args`, the engine answers r; the
\* caller keeps the returned collection when there is one
Call(op, args, r) ==
    /\ calls < MaxCalls
    /\ Len(r.items) <= MaxItems
    /\ calls' = calls + 1
    /\ last' = [op |-> op, args |-> args, input |-> items, counter |-> uidCounter,
                ok |-> r.ok, result |-> r.items, inputAfter |-> r.input,
                removed |-> r.removed]
    /\ prevAdd' = IF last.op = "add" /\ last.ok
                  THEN [ok |-> TRUE, id |-> last.args.id,
                        quantity |-> last.args.quantity, input |-> last.input]
                  ELSE NoPrevAdd
    /\ items' = IF r.ok THEN r.items ELSE r.input
    /\ uidCounter' = uidCounter + r.used
    /\ errorMessage' = r.err
    /\ UNCHANGED <<config, databaseItems, loop, store>>
    /\ UNCHANGED adapterVars

\* ItemManagerConfig: each enforcement switched on or off, a 3 x 2 grid and
\* a maximum weight of 12 as the defaults
ItemManagerConfigs ==
    { [slots |-> [enabled |-> se, maxCells |-> [width |-> 3, height |-> 2]],
       weight |-> [enabled |-> we, maxWeight |-> 12]] : se, we \in BOOLEAN }

Init ==
    /\ config \in ItemManagerConfigs
    /\ databaseItems = InitialCatalog
    /\ items = << >>
    /\ uidCounter = 0
    /\ errorMessage = ""
    /\ last = NoCall
    /\ prevAdd = NoPrevAdd
    /\ AdapterIdle
    /\ LoopIdle
    /\ StoreIdle
    /\ calls = 0

Add ==
    \E id \in IdArgs, q \in QuantityArgs, o \in OptionArgs :
        Call("add", [NoArgs EXCEPT !.id = id, !.quantity = q, !.options = o],
             add(config, databaseItems, uidCounter, id, q, items, o))

AddSpecificItem ==
    \E it \in SpecificItems, o \in OptionArgs :
        Call("addSpecificItem", [NoArgs EXCEPT !.item = <<it>>, !.options = o],
             addSpecificItem(config, it, items, o))

\* the adapters pass an item type id where the engine takes a uid
Remove ==
    \E u \in UidArgs \cup TypeIds, q \in QuantityArgs :
        Call("remove", [NoArgs EXCEPT !.uid = u, !.quantity = q],
             remove(u, q, items))

RemoveAt ==
    \E u \in UidArgs :
        Call("removeAt", [NoArgs EXCEPT !.uid = u], removeAt(u, items))

RemoveQuantityFrom ==
    \E u \in UidArgs, q \in QuantityArgs :
        Call("removeQuantityFrom", [NoArgs EXCEPT !.uid = u, !.quantity = q],
             removeQuantityFrom(u, q, items))

Split ==
    \E u \in UidArgs, q \in QuantityArgs, o \in OptionArgs :
        Call("split", [NoArgs EXCEPT !.uid = u, !.quantity = q, !.options = o],
             split(config, databaseItems, uidCounter, u, q, items, o))

Stack ==
    \E u \in UidArgs, v \in UidArgs :
        Call("stack", [NoArgs EXCEPT !.uid = u, !.uid2 = v],
             stack(databaseItems, u, v, items))

Update ==
    \E u \in UidArgs, p \in PatchArgs :
        Call("update", [NoArgs EXCEPT !.uid = u, !.patch = p], update(u, p, items))

InvokeDecay ==
    Call("invokeDecay", NoArgs, invokeDecay(errorMessage, items))

Next ==
    \/ Add
    \/ AddSpecificItem
    \/ Remove
    \/ RemoveAt
    \/ RemoveQuantityFrom
    \/ Split
    \/ Stack
    \/ Update
    \/ InvokeDecay

Spec == Init /\ [][Next]_vars


\* ------------------------------------------------ one call on any input
\* stacks as add, split and invokeDecay leave them, with the identifiers
\* UidOf(1) .. UidOf(5) the generator has handed out
StackUniverse ==
    { NewItem(InitialCatalog[Water], 2, UidOf(1), NoOptions),
      NewItem(InitialCatalog[Water], 5, UidOf(2), NoOptions),
      NewItem(InitialCatalog[Water], 4, UidOf(3), NoOptions),
      NewItem(InitialCatalog[Knife], 1, UidOf(4), NoOptions),
      [NewItem(InitialCatalog[Knife], 1, UidOf(5), [NoOptions EXCEPT !.data = <<"serial">>])
          EXCEPT !.decay = <<1>>] }

\* the collections of at most MaxItems of these stacks, no stack twice
InputCollections ==
    UNION { { c \in [1..n -> StackUniverse] :
                \A i, j \in 1..n : i # j => c[i] # c[j] } : n \in 0..MaxItems }

InitCall ==
    /\ config \in ItemManagerConfigs
    /\ databaseItems = InitialCatalog
    /\ items \in InputCollections
    /\ uidCounter = Cardinality(StackUniverse)
    /\ errorMessage = ""
    /\ last = NoCall
    /\ prevAdd = NoPrevAdd
    /\ AdapterIdle
    /\ LoopIdle
    /\ StoreIdle
    /\ calls = MaxCalls - 1

\* a single engine call on each of the input collections
SpecCall == InitCall /\ [][Next]_vars


\* --------------------------------------------- stack on any input, catalog
\* the catalog cache after itemManager.remove(Water)
CatalogAfterRemove == [t \in {Knife} |-> InitialCatalog[t]]

\* the catalog cache after itemManager.create redefined Water as unstackable
CatalogAfterCreate == [InitialCatalog EXCEPT ![Water].maxStack = 1]

Catalogs == {InitialCatalog, CatalogAfterRemove, CatalogAfterCreate}

\* the stacks of StackUniverse and a stack of three
StackInputs ==
    StackUniverse \cup {NewItem(InitialCatalog[Water], 3, UidOf(6), NoOptions)}

StackCollections ==
    UNION { { c \in [1..n -> StackInputs] :
                \A i, j \in 1..n : i # j => c[i] # c[j] } : n \in 0..MaxItems }

InitStack ==
    /\ config \in ItemManagerConfigs
    /\ databaseItems \in Catalogs
    /\ items \in StackCollections
    /\ uidCounter = Cardinality(StackInputs)
    /\ errorMessage = ""
    /\ last = NoCall
    /\ prevAdd = NoPrevAdd
    /\ AdapterIdle
    /\ LoopIdle
    /\ StoreIdle
    /\ calls = MaxCalls - 1

NextStack == Stack

\* a single stack call on each of the collections, under each catalog
SpecStack == InitStack /\ [][NextStack]_vars


\* ------------------------------------------------- remove on any input
\* two full stacks of one type, a partial one, and an unstackable item
RemoveInputs ==
    { NewItem(InitialCatalog[Water], 5, UidOf(1), NoOptions),
      NewItem(InitialCatalog[Water], 5, UidOf(2), NoOptions),
      NewItem(InitialCatalog[Water], 2, UidOf(3), NoOptions),
      NewItem(InitialCatalog[Knife], 1, UidOf(4), NoOptions) }

RemoveCollections ==
    UNION { { c \in [1..n -> RemoveInputs] :
                \A i, j \in 1..n : i # j => c[i] # c[j] } : n \in 0..MaxItems }

RemoveQuantityArgs == QuantityArgs \cup {5, 10}

InitRemove ==
    /\ config \in ItemManagerConfigs
    /\ databaseItems = InitialCatalog
    /\ items \in RemoveCollections
    /\ uidCounter = Cardinality(RemoveInputs)
    /\ errorMessage = ""
    /\ last = NoCall
    /\ prevAdd = NoPrevAdd
    /\ AdapterIdle
    /\ LoopIdle
    /\ StoreIdle
    /\ calls = MaxCalls - 1

\* remove with a uid, an absent uid or an item type id
RemoveFrom ==
    \E u \in UidArgs \cup TypeIds, q \in RemoveQuantityArgs :
        Call("remove", [NoArgs EXCEPT !.uid = u, !.quantity = q],
             remove(u, q, items))

NextRemove == RemoveFrom

\* a single remove call on each of the collections
SpecRemove == InitRemove /\ [][NextRemove]_vars

\* ------------------------------------------------- update on any input
\* patches of one field and of several fields
UpdatePatchArgs ==
    PatchArgs \cup
    { [NoPatch EXCEPT !.decay = <<-1>>],
      [NoPatch EXCEPT !.decay = <<1>>],
      [NoPatch EXCEPT !.quantity = <<3>>],
      [NoPatch EXCEPT !.decay = <<0>>, !.quantity = <<3>>],
      [NoPatch EXCEPT !.decay = <<2>>, !.quantity = <<3>>],
      [NoPatch EXCEPT !.uid = <<"renamed">>, !.quantity = <<1>>],
      NoPatch }

UpdateWith ==
    \E u \in UidArgs, p \in UpdatePatchArgs :
        Call("update", [NoArgs EXCEPT !.uid = u, !.patch = p], update(u, p, items))

NextUpdate == UpdateWith

\* a single update call on each of the input collections
SpecUpdate == InitCall /\ [][NextUpdate]_vars

\* ------------------------------------------- the policy check on any input
\* options that supply limits, a maximum weight of 0 and an empty grid included
PolicyOptionArgs ==
    OptionArgs \cup
    { [NoOptions EXCEPT !.maxWeight = <<0>>],
      [NoOptions EXCEPT !.maxWeight = <<20>>],
      [NoOptions EXCEPT !.maxCells = <<[width |-> 0, height |-> 2]>>],
      [NoOptions EXCEPT !.maxCells = <<[width |-> 4, height |-> 2]>>,
                        !.maxWeight = <<3>>] }

\* addSpecificItem returns the candidate exactly when the policy check
\* accepts it
AddSpecificWith ==
    \E it \in SpecificItems, o \in PolicyOptionArgs :
        Call("addSpecificItem", [NoArgs EXCEPT !.item = <<it>>, !.options = o],
             addSpecificItem(config, it, items, o))

NextPolicy == AddSpecificWith

\* a single addSpecificItem call on each of the input collections
SpecPolicy == InitCall /\ [][NextPolicy]_vars

\* ---------------------------------------------------- has on any input
HasQuantityArgs == QuantityArgs \cup {5, 6, 7, 11}

Has ==
    \E id \in IdArgs, q \in HasQuantityArgs :
        Call("has", [NoArgs EXCEPT !.id = id, !.quantity = q], has(id, q, items))

NextHas == Has

\* a single has call on each of the input collections
SpecHas == InitCall /\ [][NextHas]_vars

\* ============================================================ adapters
\* storageItemManager.ts and vehicleItemManager.ts: fetch the owner's
\* collection, call the engine, write the result, notify.  An operation is
\* followed from one await to the next; what the persistence layer does with
\* a write is not decided by this code, so every outcome is possible.

\* the collections an owner's record holds when an operation is called
Stored(u) == CHOOSE s \in StackUniverse : s.uid = u

StoredCollections ==
    { << >>,
      <<Stored(UidOf(1))>>,
      <<Stored(UidOf(1)), Stored(UidOf(2))>>,
      <<Stored(UidOf(1)), Stored(UidOf(4))>>,
      <<Stored(UidOf(5))>>,
      <<Stored(UidOf(2)), Stored(UidOf(5)), Stored(UidOf(3))>> }

\* the operations of an adapter with the arguments a caller passes, on an
\* owner whose collection is c
AdapterCalls(c) ==
    LET uids == Uids(c) \cup {"none"}
    IN  { [op |-> "add",
           args |-> [NoArgs EXCEPT !.id = id, !.quantity = q, !.options = o]] :
             id \in IdArgs, q \in QuantityArgs, o \in OptionArgs }
        \cup
        { [op |-> "addSpecificItem",
           args |-> [NoArgs EXCEPT !.item = <<it>>, !.options = o]] :
             it \in SpecificItems, o \in OptionArgs }
        \cup
        { [op |-> "remove", args |-> [NoArgs EXCEPT !.id = id, !.quantity = q]] :
             id \in IdArgs, q \in QuantityArgs }
        \cup
        { [op |-> "removeQuantityFrom",
           args |-> [NoArgs EXCEPT !.uid = u, !.quantity = q]] :
             u \in uids, q \in QuantityArgs }
        \cup
        { [op |-> "split",
           args |-> [NoArgs EXCEPT !.uid = u, !.quantity = q, !.options = o]] :
             u \in uids, q \in QuantityArgs, o \in {NoOptions} }
        \cup
        { [op |-> "stack", args |-> [NoArgs EXCEPT !.uid = u, !.uid2 = v]] :
             u \in uids, v \in uids }
        \cup
        { [op |-> "update", args |-> [NoArgs EXCEPT !.uid = u, !.patch = pt]] :
             u \in uids, pt \in PatchArgs }
        \cup
        { [op |-> "invokeDecay", args |-> NoArgs] }

\* itemArrayManager.<op>(..., currentItems, ...) as the adapters call it;
\* remove is handed the item type id the adapter received
EngineCall(cfg, db, n, err, op, args, cur) ==
    CASE op = "add" -> add(cfg, db, n, args.id, args.quantity, cur, args.options)
      [] op = "addSpecificItem" -> addSpecificItem(cfg, args.item[1], cur, args.options)
      [] op = "remove" -> remove(args.id, args.quantity, cur)
      [] op = "removeQuantityFrom" -> removeQuantityFrom(args.uid, args.quantity, cur)
      [] op = "split" -> split(cfg, db, n, args.uid, args.quantity, cur, args.options)
      [] op = "stack" -> stack(db, args.uid, args.uid2, cur)
      [] op = "update" -> update(args.uid, args.patch, cur)
      [] op = "invokeDecay" -> invokeDecay(err, cur)

\* how an operation goes on without calling the engine
Returns(ret) == [pc |-> "done", ret |-> ret, toWrite |-> << >>]

Writes(toWrite) == [pc |-> "writing", ret |-> "none", toWrite |-> toWrite]

\* what the adapter does with the engine's answer r.  split and stack read
\* result.success: undefined on the array the engine returns, a TypeError on
\* the undefined it returns when it rejects.  The storage adapter's
\* removeQuantityFrom hands currentItems to updateItems, every other
\* operation the collection the engine returned.
afterEngineWritesRejected(ad, op, r) ==
    IF op \in {"split", "stack"}
    THEN IF r.ok THEN Returns("successFalse") ELSE Returns("threw")
    ELSE IF op = "invokeDecay" THEN Writes(r.items)
    ELSE IF ad = "storage" /\ op = "removeQuantityFrom" /\ r.ok THEN Writes(r.input)
    ELSE Writes(r.items)

afterEngine(ad, op, r) ==
    IF op \in {"split", "stack"}
    THEN IF r.ok THEN Returns("successFalse") ELSE Returns("threw")
    ELSE IF op = "invokeDecay" THEN Writes(r.items)
    ELSE IF ~r.ok THEN Returns("false")
    ELSE IF ad = "storage" /\ op = "removeQuantityFrom" THEN Writes(r.input)
    ELSE Writes(r.items)

\* storage invokeDecay: `if (document.noDecay) return`, on the document the
\* adapter fetched when it was set up; nothing in the adapters changes the flag
decayExemptNever(ad, op, noDecay) == FALSE

decayExempt(ad, op, noDecay) == ad = "storage" /\ op = "invokeDecay" /\ noDecay

\* the returns that come before the engine call: the storage adapter's
\* invokeDecay on an empty collection, the vehicle adapter's operations on a
\* document without items (add, addSpecificItem and removeQuantityFrom go on
\* with an empty array instead)
earlyReturn(ad, op, hasItems, cur) ==
    IF ad = "storage"
    THEN IF op = "invokeDecay" /\ Len(cur) <= 0 THEN <<"void">> ELSE << >>
    ELSE IF hasItems THEN << >>
    ELSE IF op \in {"remove", "update"} THEN <<"false">>
    ELSE IF op \in {"split", "stack"} THEN <<"successFalse">>
    ELSE IF op = "invokeDecay" THEN <<"void">>
    ELSE << >>

\* the operation `me` of p, having read cur, runs up to its next await or
\* return
Continue(p, me, cur) ==
    LET early == earlyReturn(adapter, me.op, record.hasItems, cur)
        r == EngineCall(config, databaseItems, uidCounter, errorMessage,
                        me.op, me.args, cur)
        then == afterEngine(adapter, me.op, r)
    IN  IF early # << >>
        THEN /\ procs' = [procs EXCEPT ![p] = [me EXCEPT !.pc = "done", !.cur = cur,
                                                         !.ret = early[1]]]
             /\ UNCHANGED <<uidCounter, errorMessage>>
        ELSE /\ procs' = [procs EXCEPT ![p] =
                            [me EXCEPT !.pc = then.pc, !.cur = cur,
                                       !.engine = IF r.ok THEN "returned"
                                                  ELSE "rejected",
                                       !.out = r.items,
                                       !.toWrite = then.toWrite,
                                       !.ret = then.ret]]
             /\ uidCounter' = uidCounter + r.used
             /\ errorMessage' = r.err

\* a caller calls the operation c of the adapter.  The storage adapter
\* awaits getInternal (invokeDecay returns at once on an exempt storage); the
\* vehicle adapter reads document.get() and calls the engine before its
\* first await, and its `data.items = []` may or may not reach the document
BeginCall(p, c) ==
    /\ procs[p].pc = "idle"
    /\ LET called == [IdleProc EXCEPT !.op = c.op, !.args = c.args,
                                      !.before = record.items]
       IN  IF decayExempt(adapter, c.op, record.noDecay)
           THEN /\ procs' = [procs EXCEPT ![p] = [called EXCEPT !.pc = "done",
                                                                !.ret = "void"]]
                /\ UNCHANGED <<record, uidCounter, errorMessage>>
           ELSE IF adapter = "storage"
           THEN /\ procs' = [procs EXCEPT ![p] = [called EXCEPT !.pc = "fetching"]]
                /\ UNCHANGED <<record, uidCounter, errorMessage>>
           ELSE /\ \E shared \in BOOLEAN :
                     record' = IF c.op \in {"add", "addSpecificItem",
                                            "removeQuantityFrom"}
                               THEN [record EXCEPT !.hasItems = @ \/ shared]
                               ELSE record
                /\ Continue(p, called, record.items)
    /\ UNCHANGED <<config, databaseItems, items, last, prevAdd, calls, adapter, log,
                   loop, store>>

Begin(p) == \E c \in AdapterCalls(record.items) : BeginCall(p, c)

\* getInternal: db.get answers with the collection stored at that moment
Read(p) ==
    /\ procs[p].pc = "fetching"
    /\ procs' = [procs EXCEPT ![p].pc = "computing", ![p].cur = record.items]
    /\ UNCHANGED <<config, databaseItems, items, uidCounter, errorMessage, last,
                   prevAdd, calls, adapter, record, log, loop, store>>

\* the storage adapter resumes after `await getInternal()`
Compute(p) ==
    /\ procs[p].pc = "computing"
    /\ Continue(p, procs[p], procs[p].cur)
    /\ UNCHANGED <<config, databaseItems, items, last, prevAdd, calls, adapter,
                   record, log, loop, store>>

\* db.update / document.set put the collection handed over in place of the
\* stored one
persistedMerged(rec, toWrite) ==
    [rec EXCEPT !.items = toWrite \o SelectSeq(rec.items,
                                      LAMBDA s : s.uid \notin Uids(toWrite)),
                !.hasItems = TRUE]

persisted(rec, toWrite) == [rec EXCEPT !.items = toWrite, !.hasItems = TRUE]

WriteOutcomes == {"ok", "false", "rejects"}

\* updateItems / document.set: the write takes effect ("ok"), fails and
\* resolves to false, which the adapters do not look at ("false"), or fails
\* and rejects, which ends the operation with the exception ("rejects")
Write(p) ==
    /\ procs[p].pc = "writing"
    /\ \E outcome \in WriteOutcomes :
         /\ record' = IF outcome = "ok" THEN persisted(record, procs[p].toWrite)
                      ELSE record
         /\ log' = IF outcome = "ok" THEN Append(log, [p |-> p, kind |-> "write"])
                   ELSE Append(log, [p |-> p, kind |-> "writeFailed"])
         /\ procs' = [procs EXCEPT ![p].wrote = outcome,
                                   ![p].pc = IF outcome = "rejects" THEN "done"
                                             ELSE "notifying",
                                   ![p].ret = IF outcome = "rejects" THEN "threw"
                                              ELSE "none"]
    /\ UNCHANGED <<config, databaseItems, items, uidCounter, errorMessage, last,
                   prevAdd, calls, adapter, loop, store>>

\* the invoker calls that follow the write
Notifications(ad, op) ==
    CASE op \in {"add", "addSpecificItem"} -> <<"item-added", "items-updated">>
      [] op = "remove" -> <<"item-removed", "items-updated">>
      [] op \in {"update", "split", "stack"} -> <<"items-updated">>
      [] op = "removeQuantityFrom" ->
            IF ad = "vehicle" THEN <<"items-updated">> ELSE << >>
      [] op = "invokeDecay" -> << >>

Returned(op) ==
    IF op = "invokeDecay" THEN "void"
    ELSE IF op \in {"split", "stack"} THEN "successTrue"
    ELSE "true"

\* the operation resumes after the awaited write, notifies and returns
Notify(p) ==
    /\ procs[p].pc = "notifying"
    /\ LET n == Notifications(adapter, procs[p].op)
       IN  log' = log \o [i \in 1..Len(n) |-> [p |-> p, kind |-> n[i]]]
    /\ procs' = [procs EXCEPT ![p].pc = "done", ![p].ret = Returned(procs[p].op)]
    /\ UNCHANGED <<config, databaseItems, items, uidCounter, errorMessage, last,
                   prevAdd, calls, adapter, record, loop, store>>

\* one operation of either adapter on each stored collection; a vehicle
\* document may have no items yet
InitAdapter ==
    /\ config \in ItemManagerConfigs
    /\ databaseItems = InitialCatalog
    /\ items = << >>
    /\ uidCounter = Cardinality(StackUniverse)
    /\ errorMessage = ""
    /\ last = NoCall
    /\ prevAdd = NoPrevAdd
    /\ calls = 0
    /\ adapter \in {"storage", "vehicle"}
    /\ \E c \in StoredCollections, flag \in BOOLEAN :
         record = IF adapter = "storage"
                  THEN [items |-> c, hasItems |-> TRUE, noDecay |-> flag]
                  ELSE [items |-> c, hasItems |-> flag \/ c # << >>,
                        noDecay |-> FALSE]
    /\ procs = [p \in Procs |-> IdleProc]
    /\ log = << >>
    /\ LoopIdle
    /\ StoreIdle

NextAdapter ==
    \/ Begin("p1")
    \/ Read("p1")
    \/ Compute("p1")
    \/ Write("p1")
    \/ Notify("p1")

SpecAdapter == InitAdapter /\ [][NextAdapter]_vars

\* =============================================================== claims
Quantities(c) == [i \in 1..Len(c) |-> c[i].quantity]

RECURSIVE TotalQuantity(_, _)
TotalQuantity(c, id) ==
    IF c = << >> THEN 0
    ELSE (IF Head(c).id = id THEN Head(c).quantity ELSE 0) + TotalQuantity(Tail(c), id)

WellFormedStack(s) == 1 <= s.quantity /\ s.quantity <= s.maxStack

WellFormed(c) == \A i \in 1..Len(c) : WellFormedStack(c[i])

\* index of the first stack of item type id, 0 when there is none
RECURSIVE FirstOfTypeFrom(_, _, _)
FirstOfTypeFrom(c, id, i) ==
    IF i > Len(c) THEN 0
    ELSE IF c[i].id = id THEN i
    ELSE FirstOfTypeFrom(c, id, i + 1)

FirstOfType(c, id) == FirstOfTypeFrom(c, id, 1)

\* C1: a collection returned by a successful add of a positive quantity to
\* a collection that passes the policy check passes the policy check under
\* the same options, also when existing stacks absorb the whole quantity.
C1_AddResultPassesPolicy ==
    (/\ last.op = "add"
     /\ last.ok
     /\ last.args.quantity > 0
     /\ verifyStackAndWeight(config, last.input, last.args.options))
    => verifyStackAndWeight(config, last.result, last.args.options)

\* C2: a successful stack of two different stacks moves
\* m = min(target.maxStack - target.quantity, source.quantity) units: the
\* target grows by m, the source shrinks by m and is deleted exactly when
\* m is its quantity, and the total quantity of the type is unchanged.
C2_StackMovesMin ==
    (last.op = "stack" /\ last.ok /\ last.args.uid # last.args.uid2) =>
    LET c == last.input
        r == last.result
        t == findIndex(c, last.args.uid)
        s == findIndex(c, last.args.uid2)
        m == Min(c[t].maxStack - c[t].quantity, c[s].quantity)
        rt == findIndex(r, last.args.uid)
        rs == findIndex(r, last.args.uid2)
    IN  /\ rt # 0
        /\ r[rt].quantity = c[t].quantity + m
        /\ (m = c[s].quantity) <=> (rs = 0)
        /\ rs # 0 => r[rs].quantity = c[s].quantity - m
        /\ TotalQuantity(r, c[t].id) = TotalQuantity(c, c[t].id)

\* C3: remove called with an item type id, as the adapters call it, and a
\* quantity q >= 1 that the first stack of that type holds, succeeds and
\* returns the collection with that stack reduced by q, or deleted when q
\* is its quantity.
C3_RemoveByItemType ==
    LET c == last.input
        k == FirstOfType(c, last.args.uid)
        q == last.args.quantity
    IN  (/\ last.op = "remove"
         /\ last.args.uid \in TypeIds
         /\ k # 0
         /\ q >= 1
         /\ c[k].quantity >= q)
        => /\ last.ok
           /\ last.result = IF q = c[k].quantity THEN Splice(c, k)
                            ELSE [c EXCEPT ![k].quantity = @ - q]

\* C4: a successful operation on a collection whose stacks all have
\* 1 <= quantity <= maxStack (adding, for addSpecificItem, a stack that has)
\* returns a collection whose stacks all have 1 <= quantity <= maxStack.
C4_QuantityInRange ==
    (/\ last.op # "none"
     /\ last.ok
     /\ WellFormed(last.input)
     /\ last.op = "addSpecificItem" => WellFormedStack(last.args.item[1]))
    => WellFormed(last.result)

\* C5: a successful split of a stack of a well-formed collection appends one
\* stack holding exactly the amount, leaves both stacks with quantity >= 1
\* summing to the source's original quantity; a split of the source's whole
\* quantity or more fails.
C5_SplitPositive ==
    LET c == last.input
        r == last.result
        k == findIndex(c, last.args.uid)
        amount == last.args.quantity
    IN  (last.op = "split" /\ k # 0 /\ WellFormed(c)) =>
        /\ amount >= c[k].quantity => ~last.ok
        /\ last.ok =>
             /\ Len(r) = Len(c) + 1
             /\ r[k].quantity >= 1
             /\ r[Len(r)].quantity >= 1
             /\ r[Len(r)].quantity = amount
             /\ r[k].quantity + r[Len(r)].quantity = c[k].quantity

\* what C6 says add does to the existing stacks: those of the type that
\* are below maxStack are raised, in order, by
\* min(maxStack - quantity, amount still to place)
RECURSIVE ClaimedFill(_, _, _, _)
ClaimedFill(c, baseItem, quantity, i) ==
    IF i > Len(c) THEN [arr |-> c, quantity |-> quantity]
    ELSE IF c[i].id = baseItem.id /\ c[i].quantity < baseItem.maxStack
              /\ baseItem.maxStack > 1
    THEN LET n == Min(baseItem.maxStack - c[i].quantity, quantity)
         IN  ClaimedFill([c EXCEPT ![i].quantity = @ + n], baseItem, quantity - n, i + 1)
    ELSE ClaimedFill(c, baseItem, quantity, i + 1)

\* the quantities of the new stacks C6 says add appends
RECURSIVE ClaimedNew(_, _)
ClaimedNew(maxStack, quantity) ==
    IF quantity <= 0 THEN << >>
    ELSE <<Min(maxStack, quantity)>> \o ClaimedNew(maxStack, quantity - Min(maxStack, quantity))

\* C6: a successful add of a positive quantity raises the stacks of the type
\* that are below maxStack, in order, by min(free space, amount left), and
\* appends new stacks of min(maxStack, amount left) each; maxStack 1 changes
\* no existing stack; 12 of a maxStack-5 type into the empty collection
\* gives 5, 5, 2.
C6_AddFillsThenAppends ==
    (last.op = "add" /\ last.ok /\ last.args.quantity > 0) =>
    LET c == last.input
        r == last.result
        baseItem == databaseItems[last.args.id]
        f == ClaimedFill(c, baseItem, last.args.quantity, 1)
        new == ClaimedNew(baseItem.maxStack, f.quantity)
    IN  /\ Len(r) = Len(c) + Len(new)
        /\ SubSeq(r, 1, Len(c)) = f.arr
        /\ \A j \in 1..Len(new) :
             r[Len(c) + j].id = baseItem.id /\ r[Len(c) + j].quantity = new[j]
        /\ (c = << >> /\ baseItem.maxStack = 5 /\ last.args.quantity = 12)
             => Quantities(r) = <<5, 5, 2>>

\* C7: with cell enforcement enabled, a collection returned by add (of a
\* positive quantity), addSpecificItem or split occupies at most
\* maxCells.width * maxCells.height cells of the policy the call was made
\* under.
C7_CellsWithinPolicy ==
    (/\ last.op \in {"add", "addSpecificItem", "split"}
     /\ last.op = "add" => last.args.quantity > 0
     /\ last.ok
     /\ config.slots.enabled)
    => LET maxCells == EffMaxCells(config, last.args.options)
       IN  SumCells(last.result) <= maxCells.width * maxCells.height

\* C8: whatever engine operation was called, and whether it returned a
\* collection or not, the caller's collection holds after the call the
\* stacks it held before, with the same values in the same order.
C8_InputUnchanged == last.op # "none" => last.inputAfter = last.input

\* C8 witness: a stack call that returned a collection different from its input
C8_Witness ==
    /\ last.op = "stack"
    /\ last.ok
    /\ last.result # last.input
    /\ last.inputAfter = last.input

\* C9: no two stacks of the collection have the same uid.
C9_UniqueUids ==
    \A i, j \in 1..Len(items) : i # j => items[i].uid # items[j].uid

\* C10: a successful stack of two different stacks creates no uid and
\* raises neither the occupied cells nor the total weight.
C10_StackDoesNotGrow ==
    (last.op = "stack" /\ last.ok /\ last.args.uid # last.args.uid2) =>
    /\ Uids(last.result) \subseteq Uids(last.input)
    /\ SumCells(last.result) <= SumCells(last.input)
    /\ SumWeight(last.result) <= SumWeight(last.input)

\* C11: after a successful stack the target stack holds at most its maxStack.
C11_TargetWithinMaxStack ==
    (last.op = "stack" /\ last.ok) =>
    LET r == last.result
        rt == findIndex(r, last.args.uid)
    IN  rt # 0 => r[rt].quantity <= r[rt].maxStack

\* C11 witness: a stack of two different stacks raised a target that had
\* free space, and the target is in the result
C11_Witness ==
    /\ last.op = "stack"
    /\ last.ok
    /\ last.args.uid # last.args.uid2
    /\ LET t == findIndex(last.input, last.args.uid)
           rt == findIndex(last.result, last.args.uid)
       IN  /\ rt # 0
           /\ last.input[t].quantity < last.input[t].maxStack
           /\ last.result[rt].quantity > last.input[t].quantity

\* C12: stack returns no collection when either uid is absent, when the two
\* stacks differ in item type, when the catalog has no entry for the type or
\* one with maxStack <= 1, and when the target already holds its maxStack;
\* a target of 5 (maxStack 5) with a source of 3 fails as already full.
C12_StackFailures ==
    (last.op = "stack") =>
    LET c == last.input
        t == findIndex(c, last.args.uid)
        s == findIndex(c, last.args.uid2)
    IN  /\ (t = 0 \/ s = 0) => ~last.ok
        /\ (t # 0 /\ s # 0) =>
             /\ c[t].id # c[s].id => ~last.ok
             /\ c[t].id \notin DOMAIN databaseItems => ~last.ok
             /\ (c[t].id \in DOMAIN databaseItems
                   /\ databaseItems[c[t].id].maxStack <= 1) => ~last.ok
             /\ c[t].quantity = c[t].maxStack => ~last.ok
             /\ (/\ c[t].id = c[s].id
                 /\ c[t].id \in DOMAIN databaseItems
                 /\ databaseItems[c[t].id].maxStack = 5
                 /\ c[t].maxStack = 5 /\ c[t].quantity = 5 /\ c[s].quantity = 3)
                => errorMessage = "Item is already at max stack"
        /\ ~last.ok => last.result = << >>

\* C12 witness: a stack of a source of 3 on a full target of 5 failed
C12_Witness ==
    /\ last.op = "stack"
    /\ ~last.ok
    /\ LET t == findIndex(last.input, last.args.uid)
           s == findIndex(last.input, last.args.uid2)
       IN  /\ t # 0 /\ s # 0
           /\ last.input[t].id = last.input[s].id
           /\ last.input[t].quantity = 5 /\ last.input[t].maxStack = 5
           /\ last.input[s].quantity = 3
    /\ errorMessage = "Item is already at max stack"

\* C13: when a successful add(type, q, c) is followed by a successful remove
\* of the same quantity q from a stack of that type in its result, the total
\* quantity of the type in the final collection is its total quantity in c.
C13_AddRemoveConserves ==
    LET k == findIndex(last.input, last.args.uid)
    IN  (/\ prevAdd.ok
         /\ last.op = "remove" /\ last.ok
         /\ last.args.quantity = prevAdd.quantity
         /\ k # 0
         /\ last.input[k].id = prevAdd.id)
        => TotalQuantity(last.result, prevAdd.id)
             = TotalQuantity(prevAdd.input, prevAdd.id)

\* C14: remove of a quantity above the quantity of the stack it targets (the
\* stack with the uid given, or the first stack of the item type given)
\* fails, whatever the other stacks of the type hold: removing 10 from a
\* stack of 5 fails although a second stack holds 5.
C14_RemoveSingleStack ==
    (last.op = "remove") =>
    LET c == last.input
        q == last.args.quantity
        k == findIndex(c, last.args.uid)
        f == FirstOfType(c, last.args.uid)
    IN  /\ (k # 0 /\ q > c[k].quantity) => ~last.ok
        /\ (k = 0 /\ f # 0 /\ q > c[f].quantity) => ~last.ok

\* C14 witness: removing 10 from a stack of 5 failed while the stacks of the
\* type hold 10 or more together
C14_Witness ==
    /\ last.op = "remove"
    /\ ~last.ok
    /\ last.args.quantity = 10
    /\ LET k == findIndex(last.input, last.args.uid)
       IN  /\ k # 0
           /\ last.input[k].quantity = 5
           /\ TotalQuantity(last.input, last.input[k].id) >= 10

\* C15: removeQuantityFrom fails when no stack has the uid and when the
\* stack holds less than q; otherwise it returns the collection with that
\* stack's quantity reduced by q, the stack removed exactly when nothing is
\* left of it, and every other stack unchanged and in the same order.
C15_RemoveQuantityFrom ==
    (last.op = "removeQuantityFrom") =>
    LET c == last.input
        q == last.args.quantity
        k == findIndex(c, last.args.uid)
    IN  /\ k = 0 => ~last.ok
        /\ (k # 0 /\ c[k].quantity < q) => ~last.ok
        /\ (k # 0 /\ c[k].quantity >= q) =>
             /\ last.ok
             /\ last.result = IF c[k].quantity - q = 0
                              THEN SubSeq(c, 1, k - 1) \o SubSeq(c, k + 1, Len(c))
                              ELSE [i \in 1..Len(c) |->
                                      IF i = k
                                      THEN [c[i] EXCEPT !.quantity = c[k].quantity - q]
                                      ELSE c[i]]

\* C15 witness: removeQuantityFrom took a stack's whole quantity out of a
\* collection of several stacks, and the stack is gone
C15_Witness ==
    /\ last.op = "removeQuantityFrom"
    /\ last.ok
    /\ Len(last.input) >= 2
    /\ last.args.quantity >= 1
    /\ Len(last.result) = Len(last.input) - 1
    /\ last.args.uid \notin Uids(last.result)

\* C16: removeAt fails when no stack has the uid; otherwise it returns the
\* collection without the first stack carrying the uid, the other stacks
\* unchanged and in the same order, together with exactly the removed stack.
C16_RemoveAt ==
    (last.op = "removeAt") =>
    LET c == last.input
        k == findIndex(c, last.args.uid)
    IN  /\ k = 0 => (~last.ok /\ last.removed = << >>)
        /\ k # 0 =>
             /\ last.ok
             /\ last.result = SubSeq(c, 1, k - 1) \o SubSeq(c, k + 1, Len(c))
             /\ last.removed = <<c[k]>>

\* C16 witness: removeAt took a stack that is not the last one out of a
\* collection and returned it
C16_Witness ==
    /\ last.op = "removeAt"
    /\ last.ok
    /\ findIndex(last.input, last.args.uid) < Len(last.input)
    /\ Len(last.result) = Len(last.input) - 1
    /\ last.removed # << >>
    /\ last.removed[1].uid = last.args.uid

\* C17: update fails when no stack has the uid; when the patch defines
\* decay <= 0 it returns the collection without that stack, whatever else
\* the patch defines; otherwise it returns the collection with the fields
\* the patch defines overwritten on that stack, the stack's other fields and
\* all other stacks unchanged.
C17_Update ==
    (last.op = "update") =>
    LET c == last.input
        r == last.result
        data == last.args.patch
        k == findIndex(c, last.args.uid)
        kill == data.decay # << >> /\ data.decay[1] <= 0
    IN  /\ k = 0 => ~last.ok
        /\ (k # 0 /\ kill) =>
             /\ last.ok
             /\ r = SubSeq(c, 1, k - 1) \o SubSeq(c, k + 1, Len(c))
        /\ (k # 0 /\ ~kill) =>
             /\ last.ok
             /\ Len(r) = Len(c)
             /\ \A i \in 1..Len(c) : i # k => r[i] = c[i]
             /\ r[k].uid = IF data.uid # << >> THEN data.uid[1] ELSE c[k].uid
             /\ r[k].quantity =
                  IF data.quantity # << >> THEN data.quantity[1] ELSE c[k].quantity
             /\ r[k].decay = IF data.decay # << >> THEN data.decay ELSE c[k].decay
             /\ r[k].id = c[k].id /\ r[k].maxStack = c[k].maxStack
             /\ r[k].weight = c[k].weight /\ r[k].width = c[k].width
             /\ r[k].height = c[k].height /\ r[k].data = c[k].data

\* C17 witness: an update whose patch defines decay 0 and a quantity took the
\* stack out of a collection of several stacks
C17_Witness ==
    /\ last.op = "update"
    /\ last.ok
    /\ last.args.patch.decay = <<0>>
    /\ last.args.patch.quantity # << >>
    /\ Len(last.input) >= 2
    /\ Len(last.result) = Len(last.input) - 1
    /\ last.args.uid \notin Uids(last.result)

\* what C18 says invokeDecay returns: the stacks in their order, a counter
\* d > 1 lowered to d - 1, the stacks with a counter d <= 1 left out
RECURSIVE ClaimedDecay(_)
ClaimedDecay(c) ==
    IF c = << >> THEN << >>
    ELSE LET h == Head(c)
         IN  (IF h.decay = << >> THEN <<h>>
              ELSE IF h.decay[1] > 1 THEN <<[h EXCEPT !.decay = <<h.decay[1] - 1>>]>>
              ELSE << >>) \o ClaimedDecay(Tail(c))

\* C18: invokeDecay never fails; it returns the collection in which every
\* stack with a decay counter d > 1 carries d - 1, every stack with a counter
\* d <= 1 is absent and every stack without a counter is unchanged, the
\* survivors in their original order; without decaying stacks the result is
\* the input.
C18_InvokeDecay ==
    (last.op = "invokeDecay") =>
    /\ last.ok
    /\ last.result = ClaimedDecay(last.input)
    /\ (\A i \in 1..Len(last.input) : last.input[i].decay = << >>)
         => last.result = last.input

\* C18 witness: invokeDecay dropped a stack whose counter was 1 and lowered
\* the counter of another stack
C18_Witness ==
    /\ last.op = "invokeDecay"
    /\ last.ok
    /\ \E i \in 1..Len(last.input) :
         /\ last.input[i].decay = <<1>>
         /\ last.input[i].uid \notin Uids(last.result)
    /\ \E i \in 1..Len(last.input), j \in 1..Len(last.result) :
         /\ last.input[i].decay = <<2>>
         /\ last.result[j].uid = last.input[i].uid
         /\ last.result[j].decay = <<1>>

\* what C19 says the policy check answers: the limits are the ones the
\* options supply, whatever their value, and the configured ones otherwise
ClaimedFits(cfg, candidate, options) ==
    LET maxCells == IF options.maxCells # << >> THEN options.maxCells[1]
                    ELSE cfg.slots.maxCells
        maxWeight == IF options.maxWeight # << >> THEN options.maxWeight[1]
                     ELSE cfg.weight.maxWeight
        available == maxCells.width * maxCells.height
    IN  /\ available > 0
        /\ ~cfg.slots.enabled \/ SumCells(candidate) <= available
        /\ ~cfg.weight.enabled \/ SumWeight(candidate) <= maxWeight

\* C19: the policy check accepts a collection exactly when the available
\* cells are more than 0, cell enforcement is off or the occupied cells are
\* at most the available ones, and weight enforcement is off or the total
\* weight is at most the maximum weight, the limits being those the options
\* supply whenever they supply them, a maximum weight of 0 included.
C19_PolicyCheck ==
    (last.op = "addSpecificItem") =>
    (last.ok <=> ClaimedFits(config, Append(last.input, last.args.item[1]),
                             last.args.options))

\* C20: right after an engine operation that returned failure,
\* getErrorMessage() is a non-empty message; right after one that succeeded
\* it is the empty string.
C20_ErrorMessage ==
    (last.op # "none") =>
    /\ ~last.ok => errorMessage # ""
    /\ last.ok => errorMessage = ""

\* C21: after a successful add of several units of an item type whose
\* maxStack is above 1 with options.data set, no stack the add created
\* carries the data.
C21_NoDataOnStackable ==
    (/\ last.op = "add"
     /\ last.ok
     /\ last.args.quantity > 1
     /\ last.args.options.data # << >>
     /\ databaseItems[last.args.id].maxStack > 1)
    => \A i \in 1..Len(last.result) :
         last.result[i].uid \notin Uids(last.input) => last.result[i].data = << >>

RaceCalls(c) ==
    { [op |-> "add", args |-> [NoArgs EXCEPT !.id = id, !.quantity = 1]] :
        id \in TypeIds }
    \cup
    { [op |-> "removeQuantityFrom",
       args |-> [NoArgs EXCEPT !.uid = u, !.quantity = 1]] : u \in Uids(c) }
    \cup
    { [op |-> "update",
       args |-> [NoArgs EXCEPT !.uid = u, !.patch = [NoPatch EXCEPT !.decay = <<2>>]]] :
        u \in Uids(c) }
    \cup
    { [op |-> "invokeDecay", args |-> NoArgs] }

BeginMutation(p) == \E c \in RaceCalls(record.items) : BeginCall(p, c)

RaceCollections ==
    { << >>, <<Stored(UidOf(1))>>, <<Stored(UidOf(1)), Stored(UidOf(5))>> }

InitRace ==
    /\ config \in ItemManagerConfigs
    /\ databaseItems = InitialCatalog
    /\ items = << >>
    /\ uidCounter = Cardinality(StackUniverse)
    /\ errorMessage = ""
    /\ last = NoCall
    /\ prevAdd = NoPrevAdd
    /\ calls = 0
    /\ adapter = "storage"
    /\ \E c \in RaceCollections :
         record = [items |-> c, hasItems |-> TRUE, noDecay |-> FALSE]
    /\ procs = [p \in Procs |-> IdleProc]
    /\ log = << >>
    /\ LoopIdle
    /\ StoreIdle

\* the operations of the two callers run in any order from await to await:
\* nothing orders them
NextRace ==
    \E p \in Procs :
        \/ BeginMutation(p)
        \/ Read(p)
        \/ Compute(p)
        \/ Write(p)
        \/ Notify(p)

SpecRace == InitRace /\ [][NextRace]_vars

\* ------------------------------------------ add, followed step by step
\* init() caches the stored definitions as they are: a stored definition may
\* have any maxStack, 0 included (create clamps what it is given, init does
\* not)
StartupCatalogs ==
    { [InitialCatalog EXCEPT ![Water].maxStack = m] : m \in {0, 1, 5} }

\* add(id, q, []) reaches the while loop of addNewItemStacks with the whole
\* quantity: there is no stack to fill
LoopQuantityArgs == {-1, 0, 1, 2, 3, 6}

AddEnter ==
    /\ loop.pc = "idle"
    /\ \E id \in TypeIds, q \in LoopQuantityArgs :
         loop' = [pc |-> "looping", id |-> id, asked |-> q,
                  maxStack |-> databaseItems[id].maxStack, quantity |-> q,
                  pushed |-> 0]
    /\ UNCHANGED <<config, databaseItems, items, uidCounter, errorMessage, last,
                   prevAdd, calls, store>>
    /\ UNCHANGED adapterVars

\* one iteration of `while (quantity > 0)`: a stack of
\* Math.min(quantity, maxStack) is pushed and taken off the quantity.  The
\* loop's condition reads quantity only; of the array the loop grows, the
\* parity of the number of stacks pushed is kept (pushed), and the array
\* itself is set when the loop is left
LoopStep ==
    /\ loop.pc = "looping"
    /\ loop.quantity > 0
    /\ loop' = [loop EXCEPT !.quantity = @ - Min(@, loop.maxStack),
                            !.pushed = (@ + 1) % 2]
    /\ UNCHANGED <<config, databaseItems, items, uidCounter, errorMessage, last,
                   prevAdd, calls, store>>
    /\ UNCHANGED adapterVars

\* the loop is left, verifyStackAndWeight decides and add returns
LoopExit ==
    /\ loop.pc = "looping"
    /\ loop.quantity <= 0
    /\ loop' = [loop EXCEPT !.pc = "returned"]
    /\ LET r == add(config, databaseItems, uidCounter, loop.id, loop.asked, items,
                    NoOptions)
       IN  /\ items' = IF r.ok THEN r.items ELSE r.input
           /\ uidCounter' = uidCounter + r.used
           /\ errorMessage' = r.err
    /\ UNCHANGED <<config, databaseItems, last, prevAdd, calls, store>>
    /\ UNCHANGED adapterVars

InitLoop ==
    /\ config \in ItemManagerConfigs
    /\ databaseItems \in StartupCatalogs
    /\ items = << >>
    /\ uidCounter = 0
    /\ errorMessage = ""
    /\ last = NoCall
    /\ prevAdd = NoPrevAdd
    /\ calls = 0
    /\ AdapterIdle
    /\ LoopIdle
    /\ StoreIdle

NextLoop ==
    \/ AddEnter
    \/ LoopStep
    \/ LoopExit

\* add is synchronous: once called, the engine runs on until it returns
SpecLoop ==
    InitLoop /\ [][NextLoop]_vars /\ WF_vars(LoopStep) /\ WF_vars(LoopExit)

\* ============================================================= catalog
\* itemManager.ts: the cache databaseItems and the item documents of the
\* database.  A cached definition is a DatabaseBaseItem: its _id is <<n>>,
\* or << >> when the object has no _id.
Rope == "rope"

WithId(def, seqId) ==
    [id |-> def.id, maxStack |-> def.maxStack, weight |-> def.weight,
     width |-> def.width, height |-> def.height, decay |-> def.decay,
     _id |-> seqId]

\* the stored document n of a definition
Doc(n, def) ==
    [_id |-> n, id |-> def.id, maxStack |-> def.maxStack, weight |-> def.weight]

\* the documents init() finds, in the order of TypeIds
StoredId(t) == IF t = Water THEN 1 ELSE 2

\* init: databaseItems[item.id] = item for each stored document
LoadedCatalog == [t \in TypeIds |-> WithId(InitialCatalog[t], <<StoredId(t)>>)]

\* the definitions callers hand to create: a new type with a maxStack and a
\* weight to clamp, and new values for the types there are
CreateArgs ==
    { [id |-> Rope, maxStack |-> 0, weight |-> -1, width |-> 1, height |-> 1,
       decay |-> << >>],
      [InitialCatalog[Water] EXCEPT !.maxStack = 3],
      [InitialCatalog[Knife] EXCEPT !.weight = 1] }

\* create, up to `await alt.Utils.waitFor(() => isReady)`: weight < 0
\* becomes 0 and maxStack <= 0 becomes 1
clamped(item) ==
    [item EXCEPT !.weight = IF @ < 0 THEN 0 ELSE @,
                 !.maxStack = IF @ <= 0 THEN 1 ELSE @]

CatalogUnchanged ==
    /\ UNCHANGED <<config, items, uidCounter, errorMessage, last, prevAdd, loop>>
    /\ UNCHANGED adapterVars

CreateCall(p) ==
    /\ store.calls[p].pc \in {"idle", "done"}
    /\ calls < MaxCalls
    /\ calls' = calls + 1
    /\ \E item \in CreateArgs :
         store' = [store EXCEPT !.got = << >>,
                                !.calls[p] =
                     [IdleCatalogCall EXCEPT !.pc = "ready", !.op = "create",
                                             !.id = item.id,
                                             !.item = <<clamped(item)>>]]
    /\ UNCHANGED databaseItems
    /\ CatalogUnchanged

\* create resumes once ready: clonedItem is made, and databaseItems[item.id]
\* decides between db.update with the cached _id and db.create
CreateIssue(p) ==
    /\ store.calls[p].pc = "ready"
    /\ LET id == store.calls[p].id
       IN  store' = IF id \in DOMAIN databaseItems
                    THEN [store EXCEPT !.calls[p].pc = "updating",
                                       !.calls[p].target = databaseItems[id]._id]
                    ELSE [store EXCEPT !.calls[p].pc = "creating"]
    /\ UNCHANGED <<databaseItems, calls>>
    /\ CatalogUnchanged

\* db.update({ _id: itemId, ...clonedItem }): the document with that _id
\* takes the new values; no document has an undefined _id
DbUpdate(p) ==
    /\ store.calls[p].pc = "updating"
    /\ LET me == store.calls[p]
           hit == { d \in store.docs : me.target # << >> /\ d._id = me.target[1] }
       IN  store' = [store EXCEPT
                       !.docs = (@ \ hit) \cup { Doc(d._id, me.item[1]) : d \in hit },
                       !.calls[p].pc = "caching"]
    /\ UNCHANGED <<databaseItems, calls>>
    /\ CatalogUnchanged

\* db.create(clonedItem): a document with a new _id is stored.  Whether the
\* driver also sets _id on the object it was handed is not decided by this
\* code: both happen
DbCreate(p) ==
    /\ store.calls[p].pc = "creating"
    /\ LET me == store.calls[p]
           n == store.nextId + 1
       IN  \E stamps \in BOOLEAN :
             store' = [store EXCEPT
                         !.docs = @ \cup {Doc(n, me.item[1])},
                         !.nextId = n,
                         !.calls[p].stamped = IF stamps THEN <<n>> ELSE << >>,
                         !.calls[p].pc = "caching"]
    /\ UNCHANGED <<databaseItems, calls>>
    /\ CatalogUnchanged

\* databaseItems[item.id] = clonedItem: on the update path clonedItem has no
\* _id (the cached _id went into updateData only); on the create path it has
\* the _id the driver may have set
cached(me) == WithId(me.item[1], me.stamped)

CreateFinish(p) ==
    /\ store.calls[p].pc = "caching"
    /\ LET me == store.calls[p]
       IN  databaseItems' =
               [t \in DOMAIN databaseItems \cup {me.id} |->
                   IF t = me.id THEN cached(me) ELSE databaseItems[t]]
    /\ store' = [store EXCEPT !.calls[p].pc = "done", !.calls[p].ret = "void"]
    /\ UNCHANGED calls
    /\ CatalogUnchanged

\* remove: false for an id that is not cached, else
\* db.deleteDocument(databaseItems[id]._id, ...)
RemoveCall(p) ==
    /\ store.calls[p].pc \in {"idle", "done"}
    /\ calls < MaxCalls
    /\ calls' = calls + 1
    /\ \E id \in TypeIds \cup {Rope} :
         store' = [store EXCEPT !.got = << >>,
                                !.calls[p] =
                     IF id \in DOMAIN databaseItems
                     THEN [IdleCatalogCall EXCEPT !.pc = "deleting", !.op = "remove",
                                                  !.id = id,
                                                  !.target = databaseItems[id]._id]
                     ELSE [IdleCatalogCall EXCEPT !.pc = "done", !.op = "remove",
                                                  !.id = id, !.ret = "false"]]
    /\ UNCHANGED databaseItems
    /\ CatalogUnchanged

\* the delete takes effect on the document with that _id, if there is one;
\* remove resumes, drops the cache entry and returns true
RemoveFinish(p) ==
    /\ store.calls[p].pc = "deleting"
    /\ LET me == store.calls[p]
           hit == { d \in store.docs : me.target # << >> /\ d._id = me.target[1] }
       IN  /\ store' = [store EXCEPT !.docs = @ \ hit,
                                     !.calls[p].deleted = hit # { },
                                     !.calls[p].pc = "done",
                                     !.calls[p].ret = "true"]
           /\ databaseItems' = [t \in DOMAIN databaseItems \ {me.id} |->
                                   databaseItems[t]]
    /\ UNCHANGED calls
    /\ CatalogUnchanged

\* getDatabaseItem(id), asked when no create or remove is under way: a clone
\* of the cached object (got; forgotten when the next call is made)
GetDatabaseItem ==
    /\ \A p \in Procs : store.calls[p].pc \in {"idle", "done"}
    /\ \E id \in DOMAIN databaseItems :
         store' = [store EXCEPT !.got = <<databaseItems[id]>>]
    /\ UNCHANGED <<databaseItems, calls>>
    /\ CatalogUnchanged

InitCatalog ==
    /\ config \in ItemManagerConfigs
    /\ databaseItems = LoadedCatalog
    /\ items = << >>
    /\ uidCounter = 0
    /\ errorMessage = ""
    /\ last = NoCall
    /\ prevAdd = NoPrevAdd
    /\ calls = 0
    /\ AdapterIdle
    /\ LoopIdle
    /\ store = [NoStore EXCEPT
                  !.docs = { Doc(StoredId(t), InitialCatalog[t]) : t \in TypeIds },
                  !.nextId = Cardinality(TypeIds)]

\* one administrator calling create, remove and getDatabaseItem in turn
NextCatalog ==
    \/ CreateCall("p1")
    \/ CreateIssue("p1")
    \/ DbUpdate("p1")
    \/ DbCreate("p1")
    \/ CreateFinish("p1")
    \/ RemoveCall("p1")
    \/ RemoveFinish("p1")
    \/ GetDatabaseItem

SpecCatalog == InitCatalog /\ [][NextCatalog]_vars

\* ------------------------------------------- two callers of create
\* two create calls in all, made by either caller
InitCatalogRace ==
    /\ config \in ItemManagerConfigs
    /\ databaseItems = LoadedCatalog
    /\ items = << >>
    /\ uidCounter = 0
    /\ errorMessage = ""
    /\ last = NoCall
    /\ prevAdd = NoPrevAdd
    /\ calls = MaxCalls - 2
    /\ AdapterIdle
    /\ LoopIdle
    /\ store = [NoStore EXCEPT
                  !.docs = { Doc(StoredId(t), InitialCatalog[t]) : t \in TypeIds },
                  !.nextId = Cardinality(TypeIds)]

\* the create calls run in any order from await to await: nothing orders
\* them
NextCatalogRace ==
    \E p \in Procs :
        \/ CreateCall(p)
        \/ CreateIssue(p)
        \/ DbUpdate(p)
        \/ DbCreate(p)
        \/ CreateFinish(p)

SpecCatalogRace == InitCatalogRace /\ [][NextCatalogRace]_vars

\* ------------------------------------------------------ adapter claims
Logged(p, kind) == \E i \in 1..Len(log) : log[i] = [p |-> p, kind |-> kind]

Done(p, ops) == procs[p].pc = "done" /\ procs[p].op \in ops

\* C23: in the storage and vehicle adapters, when the engine returns a new
\* collection for split or stack the adapter hands that collection to the
\* persistence write and, the write done, emits items-updated and reports
\* success; when the engine rejects the split or stack the adapter returns a
\* result with success false and writes nothing.
C23_SplitStackAdapters ==
    \A p \in Procs :
        Done(p, {"split", "stack"}) =>
            /\ procs[p].engine = "returned" =>
                 /\ procs[p].wrote # "none"
                 /\ procs[p].toWrite = procs[p].out
                 /\ procs[p].wrote = "ok" =>
                      Logged(p, "items-updated") /\ procs[p].ret = "successTrue"
            /\ procs[p].engine = "rejected" =>
                 procs[p].ret = "successFalse" /\ procs[p].wrote = "none"

\* C24: after removeQuantityFrom(uid, q) of the storage adapter returned
\* true, its write having taken effect, the collection stored in the owner's
\* record is the collection the engine returned.
C24_StorageRemoveQuantityFrom ==
    \A p \in Procs :
        (/\ adapter = "storage"
         /\ Done(p, {"removeQuantityFrom"})
         /\ procs[p].ret = "true"
         /\ procs[p].wrote = "ok")
        => record.items = procs[p].out

\* C25: in add, addSpecificItem, remove and update of either adapter, every
\* item-added, item-removed and items-updated notification comes after the
\* completed persistence write of the same operation; an operation whose
\* write failed emits no notification.
C25_NotifyAfterWrite ==
    \A j \in 1..Len(log) :
        (/\ log[j].kind \in {"item-added", "item-removed", "items-updated"}
         /\ procs[log[j].p].op \in {"add", "addSpecificItem", "remove", "update"})
        => \E i \in 1..(j - 1) : log[i] = [p |-> log[j].p, kind |-> "write"]

\* p's write took effect before q's
WroteBefore(p, q) ==
    \E i, j \in 1..Len(log) :
        /\ i < j
        /\ log[i] = [p |-> p, kind |-> "write"]
        /\ log[j] = [p |-> q, kind |-> "write"]

\* both operations are over, returned success after a write that took
\* effect, and had read the same stored snapshot
BothSucceededOnOneSnapshot(p, q) ==
    /\ p # q
    /\ procs[p].pc = "done" /\ procs[q].pc = "done"
    /\ procs[p].ret \in {"true", "void"} /\ procs[q].ret \in {"true", "void"}
    /\ procs[p].wrote = "ok" /\ procs[q].wrote = "ok"
    /\ procs[p].cur = procs[q].cur

\* C26: two storage-adapter mutations on one owner can interleave at their
\* awaits so that both read the same snapshot; the later write then replaces
\* the earlier one, and the stored collection is what the later writer
\* computed from the snapshot alone (lost update).
C26_LaterWriteWins ==
    \A p, q \in Procs :
        (BothSucceededOnOneSnapshot(p, q) /\ WroteBefore(p, q))
        => record.items = procs[q].toWrite

\* two adds of different item types both returned true and the stored
\* collection holds the units of one of them only
C26_Witness ==
    \E p, q \in Procs :
        /\ BothSucceededOnOneSnapshot(p, q)
        /\ WroteBefore(p, q)
        /\ procs[p].op = "add" /\ procs[q].op = "add"
        /\ procs[p].args.id # procs[q].args.id
        /\ TotalQuantity(record.items, procs[q].args.id)
             = TotalQuantity(procs[q].cur, procs[q].args.id) + 1
        /\ TotalQuantity(record.items, procs[p].args.id)
             = TotalQuantity(procs[p].cur, procs[p].args.id)

\* C29: when the engine rejects an adapter's add, addSpecificItem, remove,
\* removeQuantityFrom or update, the adapter makes no persistence write,
\* emits no notification and returns false; the owner's stored collection is
\* the one it was before the call.
C29_RejectedLeavesStore ==
    \A p \in Procs :
        (/\ Done(p, {"add", "addSpecificItem", "remove", "removeQuantityFrom",
                     "update"})
         /\ procs[p].engine = "rejected")
        => /\ procs[p].ret = "false"
           /\ procs[p].wrote = "none"
           /\ \A i \in 1..Len(log) : log[i].p # p
           /\ record.items = procs[p].before

\* the storage adapter's add was rejected by the policy check on a
\* collection that holds stacks
C29_Witness ==
    /\ adapter = "storage"
    /\ Done("p1", {"add"})
    /\ procs["p1"].engine = "rejected"
    /\ procs["p1"].args.id = Knife
    /\ procs["p1"].before # << >>
    /\ procs["p1"].ret = "false"

\* C30: invokeDecay of the storage adapter leaves the stored collection of a
\* storage whose record has noDecay set as it is, writes nothing when the
\* stored collection is empty, and for any other storage hands the engine's
\* decayed collection to the write, which stores it.
C30_StorageInvokeDecay ==
    \A p \in Procs :
        (adapter = "storage" /\ Done(p, {"invokeDecay"})) =>
            IF record.noDecay
            THEN procs[p].wrote = "none" /\ record.items = procs[p].before
            ELSE IF procs[p].before = << >>
            THEN procs[p].wrote = "none" /\ record.items = << >>
            ELSE /\ procs[p].wrote # "none"
                 /\ procs[p].toWrite = invokeDecay("", procs[p].before).items
                 /\ procs[p].wrote = "ok" => record.items = procs[p].toWrite

\* invokeDecay returned on an exempt storage that holds a stack about to
\* expire
C30_Witness ==
    /\ adapter = "storage"
    /\ record.noDecay
    /\ Done("p1", {"invokeDecay"})
    /\ \E i \in 1..Len(record.items) : record.items[i].decay = <<1>>
    /\ invokeDecay("", procs["p1"].before).items # record.items

\* C27: every engine operation terminates on every input: add(id, q, c)
\* returns after finitely many steps for every integer q and every
\* definition the catalog cache can hold, those loaded at startup with
\* maxStack <= 0 included.
C27_AddTerminates == (loop.pc = "looping") ~> (loop.pc = "returned")

\* C28: for every id in the catalog, ids just added or updated through
\* create included, getDatabaseItem(id) returns the definition with the _id
\* of its stored document, and the catalog's remove(id), when it returns
\* true, has deleted the stored document with that identifier.
C28_CatalogIdentifiers ==
    /\ store.got # << >> =>
         /\ store.got[1]._id # << >>
         /\ \E d \in store.docs :
              d._id = store.got[1]._id[1] /\ d.id = store.got[1].id
    /\ \A p \in Procs :
         (/\ store.calls[p].pc = "done"
          /\ store.calls[p].op = "remove"
          /\ store.calls[p].ret = "true")
         => store.calls[p].deleted

\* both callers' create of one id that init() did not load are over
BothCreated(id) ==
    /\ id \notin DOMAIN LoadedCatalog
    /\ \A p \in Procs :
         /\ store.calls[p].pc = "done"
         /\ store.calls[p].op = "create"
         /\ store.calls[p].id = id

\* C31: after two concurrent create calls for the same, previously absent
\* item id have both completed, the database holds exactly one document for
\* that id and the cache entry of the id corresponds to it: it holds that
\* document's values, and the _id it carries, if any, is that document's.
C31_OneDocumentPerId ==
    \A id \in {Rope} :
        BothCreated(id) =>
            /\ Cardinality({ d \in store.docs : d.id = id }) = 1
            /\ id \in DOMAIN databaseItems
            /\ \E d \in store.docs :
                 /\ d.id = id
                 /\ databaseItems[id]._id \in {<< >>, <<d._id>>}
                 /\ d.maxStack = databaseItems[id].maxStack
                 /\ d.weight = databaseItems[id].weight

====
